---------------------------- MODULE Spec2Model ----------------------------
(***************************************************************************)
(* Model of src/main.rs: the Mandelbrot escape-time evaluator (scalar and  *)
(* complex formulation), the colour mapping and the three rasterizer       *)
(* strategies (sequential scalar, sequential complex, parallel by row).    *)
(*                                                                         *)
(* The arithmetic of the evaluator is IEEE-754 binary32 (Rust f32) with    *)
(* round-to-nearest-even and gradual underflow.  A finite f32 is modelled  *)
(* as a record [m, e] standing for m * 2^e, with a signed 24-bit           *)
(* significand m and e >= -149.  The sign of a zero is not modelled: the   *)
(* program only adds, subtracts, multiplies, divides by a non-zero width   *)
(* and compares, and none of these distinguishes -0.0 from 0.0 in a        *)
(* non-zero result or in a comparison.  Infinities and NaN are not         *)
(* produced on the bounded inputs; F32Finite is checked as an invariant.   *)
(***************************************************************************)
EXTENDS Integers, Sequences, FiniteSets, TLC

(***************************************************************************)
(* Program constants.                                                      *)
(***************************************************************************)
MAX_ITERATIONS == 100

(***************************************************************************)
(* binary32 arithmetic.                                                    *)
(***************************************************************************)
Pow2(k) == 2 ^ k

EMin == 0 - 149

EMax == 104

SigBits == 24

Abs(n) == IF n < 0 THEN 0 - n ELSE n

Sgn(n) == IF n < 0 THEN 0 - 1 ELSE 1

Max(a, b) == IF a >= b THEN a ELSE b

RECURSIVE BitLen(_)
BitLen(n) == IF n = 0 THEN 0 ELSE 1 + BitLen(n \div 2)

F32Zero == [m |-> 0, e |-> EMin]

\* The f32 nearest to M * 2^e (ties to even), in canonical form: either
\* 2^23 <= |m| < 2^24, or e = EMin and |m| < 2^23 (subnormal or zero).
\* A sticky bit may be folded into bit 0 of M when M has at least 26 bits.
F32Round(M, e) ==
    LET a == Abs(M)
        k == Max(BitLen(a) - SigBits, EMin - e)
    IN  IF a = 0 THEN F32Zero
        ELSE IF k <= 0 THEN [m |-> M * Pow2(0 - k), e |-> e + k]
        ELSE IF k > BitLen(a) THEN F32Zero
        ELSE LET q    == a \div Pow2(k)
                 r    == a % Pow2(k)
                 half == Pow2(k - 1)
                 up   == (r > half) \/ (r = half /\ q % 2 = 1)
                 q1   == IF up THEN q + 1 ELSE q
             IN  IF q1 = Pow2(SigBits)
                 THEN [m |-> Sgn(M) * Pow2(SigBits - 1), e |-> e + k + 1]
                 ELSE IF q1 = 0 THEN F32Zero
                 ELSE [m |-> Sgn(M) * q1, e |-> e + k]

\* A non-zero value with its significand shifted up to 24 bits (the exponent
\* may leave the f32 range: used inside an operation only).
F32Norm(v) ==
    LET s == SigBits - BitLen(Abs(v.m))
    IN  [m |-> v.m * Pow2(s), e |-> v.e - s]

F32Neg(v) == [m |-> 0 - v.m, e |-> v.e]

\* a * b: the exact 48-bit product of the significands, built from 12-bit
\* halves, then rounded once.
F32Mul(a, b) ==
    IF a.m = 0 \/ b.m = 0 THEN F32Zero
    ELSE LET na  == F32Norm(a)
             nb  == F32Norm(b)
             B12 == Pow2(12)
             ah  == Abs(na.m) \div B12
             al  == Abs(na.m) % B12
             bh  == Abs(nb.m) \div B12
             bl  == Abs(nb.m) % B12
             mid == ah * bl + al * bh
             lo  == al * bl + (mid % B12) * B12
             pLo == lo % Pow2(24)
             pHi == ah * bh + (mid \div B12) + (lo \div Pow2(24))
             top == pHi * 4 + (pLo \div Pow2(22))
             st  == IF pLo % Pow2(22) = 0 THEN 0 ELSE 1
         IN  F32Round(Sgn(a.m) * Sgn(b.m) * (2 * top + st), na.e + nb.e + 21)

\* a + b with guard, round and sticky bits below the larger operand.
F32Add(a, b) ==
    IF a.m = 0 THEN b
    ELSE IF b.m = 0 THEN a
    ELSE LET hi == IF a.e >= b.e THEN a ELSE b
             lo == IF a.e >= b.e THEN b ELSE a
             d  == hi.e - lo.e
             X  == Abs(lo.m) * 8
             q  == IF d > 27 THEN 0 ELSE X \div Pow2(d)
             st == IF d > 27 THEN TRUE ELSE X % Pow2(d) # 0
             B  == IF st /\ q % 2 = 0 THEN q + 1 ELSE q
         IN  F32Round(hi.m * 8 + Sgn(lo.m) * B, hi.e - 3)

F32Sub(a, b) == F32Add(a, F32Neg(b))

\* n further quotient bits of rem / den, rem < den.
RECURSIVE DivBits(_, _, _, _)
DivBits(rem, den, n, q) ==
    IF n = 0 THEN <<q, rem>>
    ELSE LET r2  == 2 * rem
             bit == IF r2 >= den THEN 1 ELSE 0
         IN  DivBits(r2 - bit * den, den, n - 1, 2 * q + bit)

\* a / b for b # 0: 27 quotient bits and a sticky bit, rounded once.
F32Div(a, b) ==
    IF a.m = 0 THEN F32Zero
    ELSE LET na == F32Norm(a)
             nb == F32Norm(b)
             q0 == Abs(na.m) \div Abs(nb.m)
             qr == DivBits(Abs(na.m) % Abs(nb.m), Abs(nb.m), 26, q0)
             st == IF qr[2] = 0 THEN 0 ELSE 1
         IN  F32Round(Sgn(a.m) * Sgn(b.m) * (2 * qr[1] + st), na.e - nb.e - 27)

\* a <= b on canonical values.
F32Le(a, b) ==
    IF a.m <= 0 /\ b.m >= 0 THEN TRUE
    ELSE IF a.m > 0 /\ b.m <= 0 THEN FALSE
    ELSE IF a.m > 0
         THEN a.e < b.e \/ (a.e = b.e /\ a.m <= b.m)
         ELSE a.e > b.e \/ (a.e = b.e /\ a.m <= b.m)

F32Gt(a, b) == ~F32Le(a, b)

\* `n as f32` for an unsigned integer below 2^30.
F32FromInt(n) == F32Round(n, 0)

F32Finite(v) ==
    /\ v.e >= EMin /\ v.e <= EMax
    /\ Abs(v.m) < Pow2(SigBits)
    /\ (v.e > EMin => Abs(v.m) >= Pow2(SigBits - 1))

F32_1_0 == F32FromInt(1)

F32_2_0 == F32FromInt(2)

F32_4_0 == F32FromInt(4)

F32_3_5 == F32Round(7, 0 - 1)

F32_2_5 == F32Round(5, 0 - 1)

(***************************************************************************)
(* Bounds of the model: image sizes up to MaxW x MaxH, NumWorkers threads  *)
(* in the pool, get_colour arguments up to MaxIterArg.                     *)
(***************************************************************************)
MaxW == 3

MaxH == 3

NumWorkers == 2

MaxIterArg == 260

(***************************************************************************)
(* The pixel -> coordinate mapping (the same expression in all three       *)
(* rasterizers).                                                           *)
(***************************************************************************)
\* (x as f32 / w as f32) * 3.5 - 2.5
CoordX(x, wd) ==
    F32Sub(F32Mul(F32Div(F32FromInt(x), F32FromInt(wd)), F32_3_5), F32_2_5)

\* (y as f32 / h as f32) * 2.0 - 1.0
CoordY(y, ht) ==
    F32Sub(F32Mul(F32Div(F32FromInt(y), F32FromInt(ht)), F32_2_0), F32_1_0)

(***************************************************************************)
(* get_colour                                                              *)
(***************************************************************************)
\* (mutant) the scaled colour of the commented-out variant:
\* (iter / MAX_ITERATIONS) as u8 * 255.
get_colour_scaled(iter) ==
    LET grey == ((iter \div MAX_ITERATIONS) % 256) * 255
    IN  <<grey, grey, grey>>

\* (mutant) white from one iteration below the cap on.
get_colour_early_white(iter) ==
    IF iter >= MAX_ITERATIONS - 1
    THEN <<255, 255, 255>>
    ELSE LET grey == (iter % 255) % 256
         IN  <<grey, grey, grey>>

get_colour(iter) ==
    IF iter = MAX_ITERATIONS
    THEN <<255, 255, 255>>
    ELSE LET grey == (iter % 255) % 256
         IN  <<grey, grey, grey>>

(***************************************************************************)
(* escape_sequence: the scalar formulation.  The loop's locals are a       *)
(* record; EscCond is the while condition and EscBody one pass of the body.*)
(***************************************************************************)
EscInit ==
    [x |-> F32Zero, y |-> F32Zero, x_sqr |-> F32Zero, y_sqr |-> F32Zero,
     iter |-> 0]

\* (mutant) the escape test made non-strict: stop when x_sqr + y_sqr >= 4.0.
EscCondStopAtFour(s) ==
    /\ ~F32Le(F32_4_0, F32Add(s.x_sqr, s.y_sqr))
    /\ s.iter < MAX_ITERATIONS

EscCond(s) ==
    /\ F32Le(F32Add(s.x_sqr, s.y_sqr), F32_4_0)
    /\ s.iter < MAX_ITERATIONS

\* (mutant) the squares are taken of the old x and y, before the update.
EscBodyStaleSquares(s, x0, y0) ==
    LET xt == F32Add(F32Sub(s.x_sqr, s.y_sqr), x0)
        y1 == F32Add(F32Mul(F32Mul(F32_2_0, s.x), s.y), y0)
        x1 == xt
    IN  [x |-> x1, y |-> y1, x_sqr |-> F32Mul(s.x, s.x),
         y_sqr |-> F32Mul(s.y, s.y), iter |-> s.iter + 1]

EscBody(s, x0, y0) ==
    LET xt == F32Add(F32Sub(s.x_sqr, s.y_sqr), x0)
        y1 == F32Add(F32Mul(F32Mul(F32_2_0, s.x), s.y), y0)
        x1 == xt
    IN  [x |-> x1, y |-> y1, x_sqr |-> F32Mul(x1, x1),
         y_sqr |-> F32Mul(y1, y1), iter |-> s.iter + 1]

RECURSIVE EscLoop(_, _, _)
EscLoop(s, x0, y0) ==
    IF EscCond(s) THEN EscLoop(EscBody(s, x0, y0), x0, y0) ELSE s.iter

escape_sequence(x0, y0) == EscLoop(EscInit, x0, y0)

(***************************************************************************)
(* escape_sequence_complex: the formulation over num::complex::Complex<f32>*)
(* (mul: re = a.re*b.re - a.im*b.im, im = a.re*b.im + a.im*b.re; add is    *)
(* componentwise; norm_sqr = re*re + im*im).                               *)
(***************************************************************************)
\* (mutant) the imaginary part loses its second product.
ComplexMulHalfIm(a, b) ==
    [re |-> F32Sub(F32Mul(a.re, b.re), F32Mul(a.im, b.im)),
     im |-> F32Mul(a.re, b.im)]

ComplexMul(a, b) ==
    [re |-> F32Sub(F32Mul(a.re, b.re), F32Mul(a.im, b.im)),
     im |-> F32Add(F32Mul(a.re, b.im), F32Mul(a.im, b.re))]

ComplexAdd(a, b) == [re |-> F32Add(a.re, b.re), im |-> F32Add(a.im, b.im)]

norm_sqr(z) == F32Add(F32Mul(z.re, z.re), F32Mul(z.im, z.im))

CEscInit == [z |-> [re |-> F32Zero, im |-> F32Zero], iter |-> 0]

\* (mutant) the cap tested with <=.
CEscCondOffByOne(s) ==
    /\ F32Le(norm_sqr(s.z), F32_4_0)
    /\ s.iter <= MAX_ITERATIONS

CEscCond(s) ==
    /\ F32Le(norm_sqr(s.z), F32_4_0)
    /\ s.iter < MAX_ITERATIONS

CEscBody(s, o) ==
    [z |-> ComplexAdd(ComplexMul(s.z, s.z), o), iter |-> s.iter + 1]

RECURSIVE CEscLoop(_, _)
CEscLoop(s, o) == IF CEscCond(s) THEN CEscLoop(CEscBody(s, o), o) ELSE s.iter

escape_sequence_complex(o) == CEscLoop(CEscInit, o)

(***************************************************************************)
(* Inputs of the evaluator: the coordinates of every pixel of every image  *)
(* within the bounds, the pixels of the 64x64 scenario and of a 14x28      *)
(* image, and coordinates on and next to the boundary of the set.          *)
(***************************************************************************)
Dyadic(n, k) == F32Round(n, 0 - k)

GridCoords ==
    { <<CoordX(p[1], p[3]), CoordY(p[2], p[4])>> :
        p \in { q \in (0..MaxW - 1) \X (0..MaxH - 1) \X (1..MaxW) \X (1..MaxH) :
                  q[1] < q[3] /\ q[2] < q[4] } }

ScenarioCoords ==
    { <<CoordX(0, 64), CoordY(0, 64)>>,
      <<CoordX(45, 64), CoordY(32, 64)>>,
      <<CoordX(9, 14), CoordY(5, 28)>> }

BoundaryCoords ==
    { <<F32Zero, F32Zero>>,
      <<Dyadic(0 - 2, 0), F32Zero>>,
      <<Dyadic(2, 0), F32Zero>>,
      <<Dyadic(0 - 121, 7), Dyadic(32, 7)>>,
      <<Dyadic(0 - 311, 8), Dyadic(42, 8)>>,
      <<Dyadic(0 - 131, 7), Dyadic(34, 7)>>,
      <<Dyadic(1, 1), Dyadic(3, 149)>>,
      <<Dyadic(0 - 2, 0), Dyadic(1, 60)>>,
      <<Dyadic(5, 1), F32Zero>> }

Coords == GridCoords \cup ScenarioCoords \cup BoundaryCoords

(***************************************************************************)
(* The iteration count of every pixel of every image within the bounds,    *)
(* as each rasterizer computes it: escape_sequence(x0, y0), and            *)
(* escape_sequence_complex(Complex::new(x0, y0)).  The tables are          *)
(* constants: each evaluation is done once.                                *)
(***************************************************************************)
Strategies ==
    {"create_mandelbrot", "create_mandelbrot_complex",
     "create_mandelbrot_parallel"}

Pixels(wd, ht) == (0..wd - 1) \X (0..ht - 1)

PixelArgs ==
    { q \in (0..MaxW - 1) \X (0..MaxH - 1) \X (1..MaxW) \X (1..MaxH) :
        q[1] < q[3] /\ q[2] < q[4] }

ScalarPixel(x, y, wd, ht) ==
    LET x0 == CoordX(x, wd)
        y0 == CoordY(y, ht)
    IN  get_colour(escape_sequence(x0, y0))

\* (mutant) the real and imaginary parts passed in the wrong order.
ComplexPixelSwapped(x, y, wd, ht) ==
    LET complex == [re |-> CoordY(y, ht), im |-> CoordX(x, wd)]
    IN  get_colour(escape_sequence_complex(complex))

ComplexPixel(x, y, wd, ht) ==
    LET complex == [re |-> CoordX(x, wd), im |-> CoordY(y, ht)]
    IN  get_colour(escape_sequence_complex(complex))

ScalarAt(q) == ScalarPixel(q[1], q[2], q[3], q[4])

ComplexAt(q) == ComplexPixel(q[1], q[2], q[3], q[4])

\* (@@ makes the function an explicit table of values.)
ScalarTable == [q \in PixelArgs |-> ScalarAt(q)] @@ <<>>

ComplexTable == [q \in PixelArgs |-> ComplexAt(q)] @@ <<>>

(***************************************************************************)
(* State.                                                                  *)
(*                                                                         *)
(* Evaluator: origin, esc, cesc, ret, retc, arg, pixel: one evaluation of  *)
(* a coordinate by escape_sequence, then by escape_sequence_complex, then  *)
(* get_colour of the result.  norms is the history of x_sqr + y_sqr, one   *)
(* entry per orbit value z_0 .. z_iter of the scalar loop.                 *)
(*                                                                         *)
(* Rasterizer: benchmark(title, f, save_img, path) calls f(w, h).  img is  *)
(* the ImageBuffer, loopxy the (x, y) of the sequential loops, next the    *)
(* position of the bridged row iterator, task[k] the row worker k holds    *)
(* and the x of its next pixel, file the image written by save.  taken[y]  *)
(* and writes[p] are histories: the workers that took row y, the threads   *)
(* that wrote pixel p (0 is the calling thread).                           *)
(***************************************************************************)
VARIABLES pc, origin, esc, cesc, norms, ret, retc, arg, pixel,
          w, h, f, save_img, img, loopxy, next, task, taken, writes, file

evalVars == <<origin, esc, cesc, norms, ret, retc, arg, pixel>>

rasterVars == <<w, h, f, save_img, img, loopxy, next, task, taken, writes, file>>

vars == <<pc, evalVars, rasterVars>>

None == 0 - 1

Workers == 1..NumWorkers

Idle == [y |-> None, x |-> 0]

NoImage == <<>>

RasterIdle ==
    /\ w = 1 /\ h = 1 /\ f = "none" /\ save_img = FALSE
    /\ img = NoImage /\ loopxy = <<0, 0>> /\ next = 0
    /\ task = [k \in Workers |-> Idle]
    /\ taken = <<>> /\ writes = <<>> /\ file = NoImage

EvalIdle ==
    /\ origin = <<F32Zero, F32Zero>>
    /\ esc = EscInit
    /\ cesc = CEscInit
    /\ norms = <<>>
    /\ ret = None
    /\ retc = None
    /\ arg = None
    /\ pixel = <<>>

(***************************************************************************)
(* The evaluator, one loop pass per step.                                  *)
(***************************************************************************)
InitEval ==
    /\ pc = "escape_sequence"
    /\ origin \in Coords
    /\ esc = EscInit
    /\ cesc = CEscInit
    /\ norms = <<F32Add(EscInit.x_sqr, EscInit.y_sqr)>>
    /\ ret = None
    /\ retc = None
    /\ arg = None
    /\ pixel = <<>>
    /\ RasterIdle

\* One pass of the while loop of escape_sequence.
EscStep ==
    /\ pc = "escape_sequence"
    /\ EscCond(esc)
    /\ esc' = EscBody(esc, origin[1], origin[2])
    /\ norms' = Append(norms, F32Add(esc'.x_sqr, esc'.y_sqr))
    /\ UNCHANGED <<pc, origin, cesc, ret, retc, arg, pixel, rasterVars>>

\* The loop condition fails: escape_sequence returns iter.
EscReturn ==
    /\ pc = "escape_sequence"
    /\ ~EscCond(esc)
    /\ ret' = esc.iter
    /\ pc' = "escape_sequence_complex"
    /\ UNCHANGED <<origin, esc, cesc, norms, retc, arg, pixel, rasterVars>>

\* One pass of the while loop of escape_sequence_complex.
CEscStep ==
    /\ pc = "escape_sequence_complex"
    /\ CEscCond(cesc)
    /\ cesc' = CEscBody(cesc, [re |-> origin[1], im |-> origin[2]])
    /\ UNCHANGED <<pc, origin, esc, norms, ret, retc, arg, pixel, rasterVars>>

CEscReturn ==
    /\ pc = "escape_sequence_complex"
    /\ ~CEscCond(cesc)
    /\ retc' = cesc.iter
    /\ arg' = ret
    /\ pc' = "get_colour"
    /\ UNCHANGED <<origin, esc, cesc, norms, ret, pixel, rasterVars>>

GetColour ==
    /\ pc = "get_colour"
    /\ pixel' = get_colour(arg)
    /\ pc' = "done"
    /\ UNCHANGED <<origin, esc, cesc, norms, ret, retc, arg, rasterVars>>

NextEval == EscStep \/ EscReturn \/ CEscStep \/ CEscReturn \/ GetColour

SpecEval == InitEval /\ [][NextEval]_vars

\* get_colour applied to every argument up to MaxIterArg.
InitColour ==
    /\ pc = "get_colour"
    /\ arg \in 0..MaxIterArg
    /\ origin = <<F32Zero, F32Zero>>
    /\ esc = EscInit
    /\ cesc = CEscInit
    /\ norms = <<>>
    /\ ret = None
    /\ retc = None
    /\ pixel = <<>>
    /\ RasterIdle

NextColour == GetColour

SpecColour == InitColour /\ [][NextColour]_vars

(***************************************************************************)
(* benchmark and the three rasterizers.                                    *)
(***************************************************************************)
Init ==
    /\ pc = "benchmark"
    /\ w \in 1..MaxW
    /\ h \in 1..MaxH
    /\ f \in Strategies
    /\ save_img \in BOOLEAN
    /\ img = NoImage /\ loopxy = <<0, 0>> /\ next = 0
    /\ task = [k \in Workers |-> Idle]
    /\ taken = <<>> /\ writes = <<>> /\ file = NoImage
    /\ EvalIdle

\* let img = f(WIDTH, HEIGHT): f starts with ImageBuffer::new(w, h).
Call ==
    /\ pc = "benchmark"
    /\ pc' = f
    /\ img' = [p \in Pixels(w, h) |-> <<0, 0, 0>>]
    /\ writes' = [p \in Pixels(w, h) |-> <<>>]
    /\ taken' = [y \in 0..h - 1 |-> <<>>]
    /\ UNCHANGED <<evalVars, w, h, f, save_img, loopxy, next, task, file>>

\* for x in 0..w { for y in 0..h { .. } }: the position after pixel (x, y).
LoopAdvance(xy) ==
    IF xy[2] + 1 < h THEN <<xy[1], xy[2] + 1>> ELSE <<xy[1] + 1, 0>>

\* create_mandelbrot: one pass of the inner loop.
CreateMandelbrotStep ==
    /\ pc = "create_mandelbrot"
    /\ loopxy[1] < w
    /\ img' = [img EXCEPT ![loopxy] = ScalarTable[<<loopxy[1], loopxy[2], w, h>>]]
    /\ writes' = [writes EXCEPT ![loopxy] = Append(@, 0)]
    /\ loopxy' = LoopAdvance(loopxy)
    /\ UNCHANGED <<pc, evalVars, w, h, f, save_img, next, task, taken, file>>

\* create_mandelbrot_complex: one pass of the inner loop.
CreateMandelbrotComplexStep ==
    /\ pc = "create_mandelbrot_complex"
    /\ loopxy[1] < w
    /\ img' = [img EXCEPT ![loopxy] = ComplexTable[<<loopxy[1], loopxy[2], w, h>>]]
    /\ writes' = [writes EXCEPT ![loopxy] = Append(@, 0)]
    /\ loopxy' = LoopAdvance(loopxy)
    /\ UNCHANGED <<pc, evalVars, w, h, f, save_img, next, task, taken, file>>

\* The outer loop of a sequential rasterizer ends: it returns img.
SeqReturn ==
    /\ pc \in {"create_mandelbrot", "create_mandelbrot_complex"}
    /\ loopxy[1] >= w
    /\ pc' = "returned"
    /\ UNCHANGED <<evalVars, rasterVars>>

\* (mutant) the iterator hands the same row out again.
IterAdvanceStuck(n) == n

\* The bridged iterator moves on to the following row.
IterAdvance(n) == n + 1

\* par_bridge: an idle worker takes the next row from the shared iterator.
TakeRow(k) ==
    /\ pc = "create_mandelbrot_parallel"
    /\ task[k] = Idle
    /\ next < h
    /\ task' = [task EXCEPT ![k] = [y |-> next, x |-> 0]]
    /\ taken' = [taken EXCEPT ![next] = Append(@, k)]
    /\ next' = IterAdvance(next)
    /\ UNCHANGED <<pc, evalVars, w, h, f, save_img, img, loopxy, writes, file>>

\* (mutant) the closure reads the row most recently handed out by the shared
\* iterator instead of its own.
RowOfLatest(t) == next - 1

\* The row a worker's closure writes to: the y of the (y, row) it was given.
RowOf(t) == t.y

\* for x in row: one pixel of the row held by worker k.
WritePixel(k) ==
    /\ pc = "create_mandelbrot_parallel"
    /\ task[k] # Idle
    /\ task[k].x < w
    /\ LET p == <<task[k].x, RowOf(task[k])>>
       IN  /\ img' = [img EXCEPT ![p] = ScalarTable[<<p[1], p[2], w, h>>]]
           /\ writes' = [writes EXCEPT ![p] = Append(@, k)]
    /\ task' = [task EXCEPT ![k].x = @ + 1]
    /\ UNCHANGED <<pc, evalVars, w, h, f, save_img, loopxy, next, taken, file>>

\* The row is exhausted: the closure returns and the worker is idle again.
FinishRow(k) ==
    /\ pc = "create_mandelbrot_parallel"
    /\ task[k] # Idle
    /\ task[k].x >= w
    /\ task' = [task EXCEPT ![k] = Idle]
    /\ UNCHANGED <<pc, evalVars, w, h, f, save_img, img, loopxy, next, taken,
                   writes, file>>

\* (mutant) for_each returns as soon as the iterator is drained.
JoinReadyDrained == next >= h

\* for_each returns once the iterator is drained and every closure returned.
JoinReady == next >= h /\ \A k \in Workers : task[k] = Idle

Join ==
    /\ pc = "create_mandelbrot_parallel"
    /\ JoinReady
    /\ pc' = "returned"
    /\ UNCHANGED <<evalVars, rasterVars>>

\* if save_img { img.save(path) }
Save ==
    /\ pc = "returned"
    /\ save_img
    /\ file' = img
    /\ pc' = "done"
    /\ UNCHANGED <<evalVars, w, h, f, save_img, img, loopxy, next, task, taken,
                   writes>>

SkipSave ==
    /\ pc = "returned"
    /\ ~save_img
    /\ pc' = "done"
    /\ UNCHANGED <<evalVars, rasterVars>>

Next ==
    \/ Call
    \/ CreateMandelbrotStep
    \/ CreateMandelbrotComplexStep
    \/ SeqReturn
    \/ \E k \in Workers : TakeRow(k)
    \/ \E k \in Workers : WritePixel(k)
    \/ \E k \in Workers : FinishRow(k)
    \/ Join
    \/ Save
    \/ SkipSave

Spec == Init /\ [][Next]_vars

(***************************************************************************)
(* Properties.                                                             *)
(***************************************************************************)
\* ColorMapping(EscapeEvaluator(CoordinateOf(x, y, w, h))) of pixel p.
ExpectedPixel(p) == ScalarTable[<<p[1], p[2], w, h>>]

ExpectedImage == [p \in Pixels(w, h) |-> ExpectedPixel(p)]

Parallel == f = "create_mandelbrot_parallel"

White == <<255, 255, 255>>

\* Every f32 of the evaluator's state is finite and canonical: the bounded
\* inputs never overflow.
EvalF32Finite ==
    /\ \A v \in {origin[1], origin[2], esc.x, esc.y, esc.x_sqr, esc.y_sqr,
                 cesc.z.re, cesc.z.im} : F32Finite(v)
    /\ \A i \in 1..Len(norms) : F32Finite(norms[i])

\* C1: in the parallel strategy the image is returned, and saved, only after
\* every row task has completed: from the return on, the iterator is drained,
\* no worker holds a row, and every pixel has been written and holds
\* ColorMapping(EscapeEvaluator(CoordinateOf(x, y, w, h))); the saved file is
\* that complete image.
C1_SaveAfterAllRows ==
    (Parallel /\ pc \in {"returned", "done"}) =>
        /\ next = h
        /\ \A k \in Workers : task[k] = Idle
        /\ \A y \in 0..h - 1 : Len(taken[y]) = 1
        /\ \A p \in Pixels(w, h) : Len(writes[p]) = 1 /\ img[p] = ExpectedPixel(p)
        /\ (pc = "done" /\ save_img => file = ExpectedImage)

C1_Witness ==
    /\ Parallel /\ pc = "done" /\ save_img
    /\ w = MaxW /\ h = MaxH
    /\ file = img
    /\ \E y \in 0..h - 1 : taken[y] = <<2>>

\* C2: whichever of the three strategies benchmark calls, the image it
\* returns for (w, h) is the same: every pixel holds the colour the scalar
\* evaluation gives and the colour the complex evaluation gives.
C2_StrategiesAgree ==
    (pc \in {"returned", "done"}) =>
        \A p \in Pixels(w, h) :
            /\ img[p] = ScalarTable[<<p[1], p[2], w, h>>]
            /\ img[p] = ComplexTable[<<p[1], p[2], w, h>>]

C2_Witness ==
    /\ pc = "returned" /\ f = "create_mandelbrot_complex"
    /\ w = MaxW /\ h = MaxH
    /\ \E p \in Pixels(w, h) : img[p] = White
    /\ \E p \in Pixels(w, h) : img[p] # White

\* C3: in the parallel strategy the image does not depend on the schedule:
\* at every moment a pixel is either untouched or holds the value of its own
\* position, whichever worker wrote it and in whatever order, and the image
\* after the join is the one function of (w, h).
C3_ScheduleIndependent ==
    Parallel /\ pc # "benchmark" =>
        /\ \A p \in Pixels(w, h) :
              img[p] = IF writes[p] = <<>> THEN <<0, 0, 0>> ELSE ExpectedPixel(p)
        /\ (pc = "returned" => img = ExpectedImage)

C3_Witness ==
    /\ Parallel /\ pc = "returned"
    /\ h >= 3 /\ w >= 2
    /\ taken[0] = <<2>> /\ taken[1] = <<1>> /\ taken[2] = <<1>>
    /\ img = ExpectedImage

\* C4: each row is taken by exactly one worker, and a pixel of row y is
\* written only by the worker that took row y, at most once: no two workers
\* write the same pixel.
C4_DisjointWrites ==
    Parallel /\ pc # "benchmark" =>
        /\ \A y \in 0..h - 1 : Len(taken[y]) <= 1
        /\ \A y \in 0..h - 1 : (y < next) = (taken[y] # <<>>)
        /\ \A p \in Pixels(w, h) :
              /\ Len(writes[p]) <= 1
              /\ \A i \in 1..Len(writes[p]) : taken[p[2]] = <<writes[p][i]>>
        /\ \A j, k \in Workers :
              (j # k /\ task[j] # Idle /\ task[k] # Idle) => task[j].y # task[k].y

C4_Witness ==
    /\ Parallel
    /\ pc = "create_mandelbrot_parallel"
    /\ \E p, q \in Pixels(w, h) :
          /\ p[2] # q[2]
          /\ writes[p] = <<1>> /\ writes[q] = <<2>>
    /\ \A k \in Workers : task[k] # Idle /\ task[k].x < w

\* C5: escape_sequence returns the least n with |z_n|^2 > 4.0 when there is
\* one with n <= MAX_ITERATIONS, and MAX_ITERATIONS otherwise; the test is
\* strict: every orbit value before the returned step has |z_n|^2 <= 4.0
\* (4.0 itself included) and the loop went on past it.
C5_FirstEscape ==
    ret # None =>
        /\ ret \in 0..MAX_ITERATIONS
        /\ Len(norms) = ret + 1
        /\ \A n \in 0..ret - 1 : F32Le(norms[n + 1], F32_4_0)
        /\ (ret < MAX_ITERATIONS => F32Gt(norms[ret + 1], F32_4_0))

\* An orbit value with |z_1|^2 exactly 4.0 did not stop the loop.
C5_Witness ==
    /\ ret = MAX_ITERATIONS
    /\ norms[2] = F32_4_0
    /\ origin[1] = Dyadic(0 - 2, 0)

\* C6: for the same coordinate escape_sequence and escape_sequence_complex
\* return the same iteration count.
C6_FormulationsAgree ==
    (ret # None /\ retc # None) => ret = retc

\* The orbit first exceeds the threshold at step MAX_ITERATIONS.
C6_Witness ==
    /\ pc = "get_colour"
    /\ ret = MAX_ITERATIONS /\ retc = MAX_ITERATIONS
    /\ F32Gt(norms[MAX_ITERATIONS + 1], F32_4_0)
    /\ F32Gt(norm_sqr(cesc.z), F32_4_0)

\* C7: the loops of escape_sequence and escape_sequence_complex make at most
\* MAX_ITERATIONS passes: iter never exceeds MAX_ITERATIONS, counts the
\* passes made, the loop condition is false once iter = MAX_ITERATIONS, and
\* the returned count lies in [0, MAX_ITERATIONS].
C7_IterBounded ==
    /\ esc.iter \in 0..MAX_ITERATIONS
    /\ cesc.iter \in 0..MAX_ITERATIONS
    /\ (pc \in {"escape_sequence", "escape_sequence_complex", "done"}
          => Len(norms) = esc.iter + 1)
    /\ (esc.iter = MAX_ITERATIONS => ~EscCond(esc))
    /\ (cesc.iter = MAX_ITERATIONS => ~CEscCond(cesc))
    /\ (ret # None => ret \in 0..MAX_ITERATIONS)
    /\ (retc # None => retc \in 0..MAX_ITERATIONS)

\* Both loops stopped by the cap alone, the orbit still inside the radius.
C7_Witness ==
    /\ pc = "escape_sequence_complex"
    /\ ret = MAX_ITERATIONS
    /\ cesc.iter = MAX_ITERATIONS
    /\ F32Le(norm_sqr(cesc.z), F32_4_0)
    /\ F32Le(norms[MAX_ITERATIONS + 1], F32_4_0)

\* C8: get_colour(MAX_ITERATIONS) = (255,255,255); for n < MAX_ITERATIONS,
\* get_colour(n) = (n mod 255, n mod 255, n mod 255); the three channels are
\* equal for every argument.
C8_GetColour ==
    pc = "done" =>
        /\ (arg = MAX_ITERATIONS => pixel = <<255, 255, 255>>)
        /\ (arg < MAX_ITERATIONS => pixel = <<arg % 255, arg % 255, arg % 255>>)
        /\ pixel[1] = pixel[2] /\ pixel[2] = pixel[3]
        /\ pixel[1] \in 0..255

C8_Witness ==
    /\ pc = "done"
    /\ arg = MAX_ITERATIONS - 1
    /\ pixel = <<99, 99, 99>>

\* C9 as stated: whenever the evaluator returns MAX_ITERATIONS (the pixel is
\* white), |z_n|^2 <= 4.0 for every n from 0 to MAX_ITERATIONS.
C9_Original ==
    (pc = "done" /\ ret = MAX_ITERATIONS) =>
        /\ pixel = White
        /\ \A n \in 0..MAX_ITERATIONS : F32Le(norms[n + 1], F32_4_0)

\* C9 as amended: a pixel is white exactly when the evaluator returned
\* MAX_ITERATIONS, and then |z_n|^2 <= 4.0 for every n from 0 to
\* MAX_ITERATIONS - 1 (z at step MAX_ITERATIONS is never tested).
C9_WhiteNotEscapedBeforeCap ==
    pc = "done" =>
        /\ (ret = MAX_ITERATIONS) = (pixel = White)
        /\ (pixel = White =>
              \A n \in 0..MAX_ITERATIONS - 1 : F32Le(norms[n + 1], F32_4_0))

\* A white pixel whose orbit exceeds the threshold at step MAX_ITERATIONS.
C9_Witness ==
    /\ pc = "done"
    /\ pixel = White
    /\ F32Gt(norms[MAX_ITERATIONS + 1], F32_4_0)
    /\ origin = <<CoordX(9, 14), CoordY(5, 28)>>

=============================================================================
